---- MODULE Spec2Model ----
(***************************************************************************)
(* Model of scanWithSlidingWindow (src/src/utils/qrScanner.ts): one        *)
(* behaviour is one invocation of the scanner on one image with one        *)
(* ScannerSettings value.  The decode primitive jsQR is a black box: each   *)
(* call answers Null, a payload, or raises.                                 *)
(*                                                                         *)
(* Numbers.  Scales are held as numerators over ScaleDen and the window    *)
(* overlap as a numerator over OvDen, so Math.floor(width * scale) is the  *)
(* floored integer division (width * scale) \div ScaleDen.                 *)
(***************************************************************************)
EXTENDS Integers, Sequences, FiniteSets

\* ---------------------------------------------------------------- bounds
MaxDim == 3          \* image width and height range over 1..MaxDim
MaxWin == 2          \* window sizes range over 1..MaxWin
ScaleDen == 2        \* scales are multiples of 1/ScaleDen
OvDen == 4           \* windowOverlap is a multiple of 1/OvDen, in [0,1)
MaxRepeat == 2       \* a non-advancing loop may repeat this many probes
MaxNeg == 2          \* a descending scale is followed down to -MaxNeg/ScaleDen
MaxPieces == 4       \* a decoded string is made of at most MaxPieces pieces of text
MaxJobs == 2         \* files and pasted images taken in one behaviour
MaxPages == 2        \* a PDF has 1..MaxPages pages

Null == "null"
Throw == "throw"
Payloads == {"A", "B"}

\* windowSizes: ordered lists of distinct positive sizes, at most two long
WindowSizeLists ==
    {<<>>} \cup {<<a>> : a \in 1..MaxWin}
           \cup {ab \in (1..MaxWin) \X (1..MaxWin) : ab[1] # ab[2]}

\* src/src/types/index.ts: ScannerSettings
ScannerSettings ==
    [useAdvancedScanning : BOOLEAN,
     debugMode           : BOOLEAN,
     minScale            : {1, ScaleDen},
     maxScale            : {1, ScaleDen},
     scaleStep           : {-1, 0, 1, ScaleDen},
     windowOverlap       : 0..(OvDen - 1),
     windowSizes         : WindowSizeLists]

VARIABLES
    scannerSettings,   \* the ScannerSettings argument
    width, height,     \* imageData.width, imageData.height
    debugCanvas,       \* debugCanvasRef: "noref" (current is null),
                       \* "noctx" (getContext('2d') gives null), "ok"
    pc,                \* position in scanWithSlidingWindow
    debugContext,      \* debugContext !== null
    canvasWrites,      \* writes made to the debug canvas, in order
    scale,             \* loop variable of the scale loop
    wi,                \* index of windowSize in scannerSettings.windowSizes
    x, y,              \* loop variables of the window loops
    probes,            \* the decode calls made so far, in order
    skipped,           \* scales left because a canvas context was missing
    code,              \* what the latest jsQR call gave ("none" before the first)
    nativeCode,        \* what the jsQR call on the unmodified buffer gave
    onDecodeCalls,     \* arguments of the onDecode calls, in order
    onDebugImageCalls, \* arguments of the onDebugImage calls, in order
    result             \* "none" while running, else the returned "true" / "false"

\* a useState value that is null, or that holds v
None == <<>>
Some(v) == <<v>>

\* the state of the QRReader component around the scanner
VARIABLES
    showAdvancedOptions, \* the options panel is rendered
    decodedData,         \* useState: None or Some decoded string
    dataType,            \* useState: Null, "json", "wifi", "url", "text"
    wifiCredentials,     \* useState: None or Some credentials
    error,               \* useState: Null or the message shown
    isLoading,           \* useState
    pdfProcessingState,  \* useState: its field processing
    debugImage,          \* useState: None or Some scan, whose canvas it shows
    pdfjs,               \* useState and its import: "pending", "loaded", "failed"
    jobs,                \* the processing jobs started, by number: what
                         \* callback each one is waiting for
    lastScan             \* None or Some scan, the latest that returned or raised

app == <<showAdvancedOptions, decodedData, dataType, wifiCredentials, error, isLoading,
         pdfProcessingState, debugImage, pdfjs, jobs, lastScan>>

vars == <<scannerSettings, width, height, debugCanvas, pc, debugContext,
          canvasWrites, scale, wi, x, y, probes, skipped, code, nativeCode,
          onDecodeCalls, onDebugImageCalls, result, app>>

\* what a scan is given and what it leaves alone: its arguments and the
\* component that called it
env == <<scannerSettings, width, height, debugCanvas, app>>

\* QRReader.tsx lines 32-55: the initial useState values
AppInitial ==
    /\ showAdvancedOptions = FALSE
    /\ decodedData = None
    /\ dataType = Null
    /\ wifiCredentials = None
    /\ error = Null
    /\ isLoading = FALSE
    /\ pdfProcessingState = [processing |-> FALSE]
    /\ debugImage = None
    /\ pdfjs = "pending"
    /\ jobs = <<>>
    /\ lastScan = None

\* ------------------------------------------------------------- helpers
\* Math.floor(imageData.width * scale), Math.floor(imageData.height * scale)
ScaledDim(dim, s) == (dim * s) \div ScaleDen

scaledWidth == ScaledDim(width, scale)
scaledHeight == ScaledDim(height, scale)

windowSize == scannerSettings.windowSizes[wi]

\* Math.floor(windowSize * (1 - windowOverlap))
StepSize(ws, ov) == (ws * (OvDen - ov)) \div OvDen

stepSize == StepSize(windowSize, scannerSettings.windowOverlap)

NativeProbe == [kind |-> "native", scale |-> ScaleDen, wi |-> 0, size |-> 0, x |-> 0, y |-> 0]
FrameProbe(s) == [kind |-> "frame", scale |-> s, wi |-> 0, size |-> 0, x |-> 0, y |-> 0]
WindowProbe(s, i, ws, px, py) ==
    [kind |-> "window", scale |-> s, wi |-> i, size |-> ws, x |-> px, y |-> py]

Attempted == {probes[i] : i \in 1..Len(probes)}
Repeats == Len(probes) - Cardinality(Attempted)

\* jsQR is a function of the pixels it is given: a buffer that was tried
\* before (and did not decode, or the scan would have ended) does not
\* decode now; a new buffer may give any answer.
DecodeOutcomes(p) ==
    IF p \in Attempted THEN {Null, Throw} ELSE {Null, Throw} \cup Payloads

\* a loop that does not advance is followed for MaxRepeat repeated probes
MayProbe(p) == p \notin Attempted \/ Repeats < MaxRepeat

\* the strokeRect arguments (x / scale, y / scale, windowSize / scale),
\* kept as the unprojected window and the scale that divides it
Rect(style, s, ws, px, py) ==
    [op |-> style, scale |-> s, size |-> ws, x |-> px, y |-> py]

\* a write to the debug canvas that is not a rectangle
CanvasOp(name) == [op |-> name, scale |-> 0, size |-> 0, x |-> 0, y |-> 0]

\* ---------------------------------------------------------------- Init
Init ==
    /\ scannerSettings \in ScannerSettings
    /\ width \in 1..MaxDim
    /\ height \in 1..MaxDim
    /\ debugCanvas \in {"noref", "noctx", "ok"}
    /\ pc = "native"
    /\ debugContext = FALSE
    /\ canvasWrites = <<>>
    /\ scale = 0
    /\ wi = 0
    /\ x = 0
    /\ y = 0
    /\ probes = <<>>
    /\ skipped = {}
    /\ code = "none"
    /\ nativeCode = "none"
    /\ onDecodeCalls = <<>>
    /\ onDebugImageCalls = <<>>
    /\ result = "none"
    /\ AppInitial

\* ------------------------------------------------------------- actions
\* NativePass without the return after onDecode (line 20)
NativePassNoReturn ==
    /\ pc = "native"
    /\ \E c \in DecodeOutcomes(NativeProbe) :
         /\ probes' = Append(probes, NativeProbe)
         /\ code' = c
         /\ nativeCode' = c
         /\ onDecodeCalls' = IF c \in Payloads THEN Append(onDecodeCalls, c) ELSE onDecodeCalls
         /\ pc' = IF c = Throw THEN "threw" ELSE "gate"
         /\ UNCHANGED result
    /\ UNCHANGED <<env, debugContext, canvasWrites, scale, wi, x, y, skipped,
                   onDebugImageCalls>>

\* lines 13-21: the attempt on the unmodified buffer; it is outside any try
NativePass ==
    /\ pc = "native"
    /\ \E c \in DecodeOutcomes(NativeProbe) :
         /\ probes' = Append(probes, NativeProbe)
         /\ code' = c
         /\ nativeCode' = c
         /\ IF c \in Payloads
              THEN /\ onDecodeCalls' = Append(onDecodeCalls, c)
                   /\ result' = "true"
                   /\ pc' = "done"
              ELSE /\ pc' = IF c = Throw THEN "threw" ELSE "gate"
                   /\ UNCHANGED <<onDecodeCalls, result>>
    /\ UNCHANGED <<env, debugContext, canvasWrites, scale, wi, x, y, skipped,
                   onDebugImageCalls>>

\* Gate that does not look at useAdvancedScanning
GateAlwaysAdvanced ==
    /\ pc = "gate"
    /\ pc' = "debugSetup"
    /\ UNCHANGED <<env, code, nativeCode, debugContext, canvasWrites, scale, wi, x, y,
                   probes, skipped, onDecodeCalls, onDebugImageCalls, result>>

\* lines 23-25
Gate ==
    /\ pc = "gate"
    /\ IF ~scannerSettings.useAdvancedScanning
         THEN /\ result' = "false"
              /\ pc' = "done"
         ELSE /\ pc' = "debugSetup"
              /\ UNCHANGED result
    /\ UNCHANGED <<env, code, nativeCode, debugContext, canvasWrites, scale, wi, x, y, probes,
                   skipped, onDecodeCalls, onDebugImageCalls>>

\* DebugSetup that sets the canvas up without looking at debugMode
DebugSetupAlways ==
    /\ pc = "debugSetup"
    /\ IF debugCanvas # "noref"
         THEN /\ debugContext' = (debugCanvas = "ok")
              /\ canvasWrites' =
                   IF debugCanvas = "ok"
                     THEN <<CanvasOp("resize"), CanvasOp("putImageData")>>
                     ELSE <<CanvasOp("resize")>>
         ELSE UNCHANGED <<debugContext, canvasWrites>>
    /\ scale' = scannerSettings.minScale
    /\ pc' = "scaleLoop"
    /\ UNCHANGED <<env, code, nativeCode, wi, x, y, probes, skipped, onDecodeCalls,
                   onDebugImageCalls, result>>

\* lines 27-46: the debug canvas is sized and painted with the original
\* image, then the scale loop is initialised (scale = minScale)
DebugSetup ==
    /\ pc = "debugSetup"
    /\ IF scannerSettings.debugMode /\ debugCanvas # "noref"
         THEN /\ debugContext' = (debugCanvas = "ok")
              /\ canvasWrites' =
                   IF debugCanvas = "ok"
                     THEN <<CanvasOp("resize"), CanvasOp("putImageData")>>
                     ELSE <<CanvasOp("resize")>>
         ELSE UNCHANGED <<debugContext, canvasWrites>>
    /\ scale' = scannerSettings.minScale
    /\ pc' = "scaleLoop"
    /\ UNCHANGED <<env, code, nativeCode, wi, x, y, probes, skipped, onDecodeCalls,
                   onDebugImageCalls, result>>

\* the for-loop increment scale += scaleStep, followed while the descending
\* scale stays above the floor of the model
ScaleAdvance ==
    /\ scale + scannerSettings.scaleStep >= -MaxNeg
    /\ scale' = scale + scannerSettings.scaleStep
    /\ pc' = "scaleLoop"

\* ScaleLoop as a do-while: the first scale is entered without the test
ScaleLoopDoWhile ==
    /\ pc = "scaleLoop"
    /\ IF scale <= scannerSettings.maxScale \/ (scale = scannerSettings.minScale /\ probes = <<NativeProbe>>)
         THEN IF scaledWidth <= 0 \/ scaledHeight <= 0
                THEN ScaleAdvance
                ELSE pc' = "resample" /\ UNCHANGED scale
         ELSE pc' = "exhaust" /\ UNCHANGED scale
    /\ UNCHANGED <<env, code, nativeCode, debugContext, canvasWrites, wi, x, y, probes,
                   skipped, onDecodeCalls, onDebugImageCalls, result>>

\* ScaleLoop without the skip of empty dimensions (line 51)
ScaleLoopNoSkip ==
    /\ pc = "scaleLoop"
    /\ IF scale <= scannerSettings.maxScale
         THEN pc' = "resample" /\ UNCHANGED scale
         ELSE pc' = "exhaust" /\ UNCHANGED scale
    /\ UNCHANGED <<env, code, nativeCode, debugContext, canvasWrites, wi, x, y, probes,
                   skipped, onDecodeCalls, onDebugImageCalls, result>>

\* lines 46-51: loop condition, scaled dimensions, skip of empty dimensions
ScaleLoop ==
    /\ pc = "scaleLoop"
    /\ IF scale <= scannerSettings.maxScale
         THEN IF scaledWidth <= 0 \/ scaledHeight <= 0
                THEN ScaleAdvance
                ELSE pc' = "resample" /\ UNCHANGED scale
         ELSE pc' = "exhaust" /\ UNCHANGED scale
    /\ UNCHANGED <<env, code, nativeCode, debugContext, canvasWrites, wi, x, y, probes, skipped,
                   onDecodeCalls, onDebugImageCalls, result>>

\* Resample that gives the scan up (break) when a context is missing
ResampleBreaks ==
    /\ pc = "resample"
    /\ \E scaledContext \in BOOLEAN :
         IF scaledContext
           THEN pc' = "frame" /\ UNCHANGED <<scale, skipped>>
           ELSE pc' = "exhaust" /\ skipped' = skipped \cup {scale} /\ UNCHANGED scale
    /\ UNCHANGED <<env, code, nativeCode, debugContext, canvasWrites, wi, x, y,
                   probes, onDecodeCalls, onDebugImageCalls, result>>

\* Resample that goes straight to the windows, without the whole-frame call
ResampleSkipsFrame ==
    /\ pc = "resample"
    /\ \E scaledContext \in BOOLEAN :
         IF scaledContext
           THEN pc' = "sizeLoop" /\ wi' = 1 /\ UNCHANGED <<scale, skipped>>
           ELSE ScaleAdvance /\ skipped' = skipped \cup {scale} /\ UNCHANGED wi
    /\ UNCHANGED <<env, code, nativeCode, debugContext, canvasWrites, x, y,
                   probes, onDecodeCalls, onDebugImageCalls, result>>

\* lines 53-73: the scaled and the temporary canvas; either getContext may
\* give null, and then the scale is left
Resample ==
    /\ pc = "resample"
    /\ \E scaledContext \in BOOLEAN :
         IF scaledContext
           THEN pc' = "frame" /\ UNCHANGED <<scale, skipped>>
           ELSE ScaleAdvance /\ skipped' = skipped \cup {scale}
    /\ UNCHANGED <<env, code, nativeCode, debugContext, canvasWrites, wi, x, y, probes,
                   onDecodeCalls, onDebugImageCalls, result>>

\* FrameAttempt without the return after onDecode (line 84)
FrameAttemptNoReturn ==
    /\ pc = "frame"
    /\ MayProbe(FrameProbe(scale))
    /\ \E c \in DecodeOutcomes(FrameProbe(scale)) :
         /\ probes' = Append(probes, FrameProbe(scale))
         /\ code' = c
         /\ onDecodeCalls' = IF c \in Payloads THEN Append(onDecodeCalls, c) ELSE onDecodeCalls
         /\ wi' = 1
         /\ pc' = "sizeLoop"
         /\ UNCHANGED result
    /\ UNCHANGED <<env, nativeCode, debugContext, canvasWrites, scale, x, y, skipped,
                   onDebugImageCalls>>

\* lines 75-91: the whole scaled image, inside try/catch
FrameAttempt ==
    /\ pc = "frame"
    /\ MayProbe(FrameProbe(scale))
    /\ \E c \in DecodeOutcomes(FrameProbe(scale)) :
         /\ probes' = Append(probes, FrameProbe(scale))
         /\ code' = c
         /\ IF c \in Payloads
              THEN /\ onDecodeCalls' = Append(onDecodeCalls, c)
                   /\ result' = "true"
                   /\ pc' = "done"
                   /\ UNCHANGED wi
              ELSE /\ wi' = 1
                   /\ pc' = "sizeLoop"
                   /\ UNCHANGED <<onDecodeCalls, result>>
    /\ UNCHANGED <<env, nativeCode, debugContext, canvasWrites, scale, x, y, skipped,
                   onDebugImageCalls>>

\* SizeLoop that leaves the scale loop after the last window size
SizeLoopBreaks ==
    /\ pc = "sizeLoop"
    /\ IF wi <= Len(scannerSettings.windowSizes)
         THEN /\ y' = 0
              /\ pc' = "yLoop"
         ELSE /\ pc' = "exhaust"
              /\ UNCHANGED y
    /\ UNCHANGED <<env, code, nativeCode, debugContext, canvasWrites, scale, wi, x,
                   probes, skipped, onDecodeCalls, onDebugImageCalls, result>>

\* lines 91-94: next window size, its step, y = 0; after the last size the
\* scale loop goes on
SizeLoop ==
    /\ pc = "sizeLoop"
    /\ IF wi <= Len(scannerSettings.windowSizes)
         THEN /\ y' = 0
              /\ pc' = "yLoop"
              /\ UNCHANGED scale
         ELSE /\ ScaleAdvance
              /\ UNCHANGED y
    /\ UNCHANGED <<env, code, nativeCode, debugContext, canvasWrites, wi, x, probes, skipped,
                   onDecodeCalls, onDebugImageCalls, result>>

\* YLoop with y < scaledHeight - windowSize: the last row is never tried
YLoopStrict ==
    /\ pc = "yLoop"
    /\ IF y < scaledHeight - windowSize
         THEN /\ x' = 0
              /\ pc' = "xLoop"
              /\ UNCHANGED wi
         ELSE /\ wi' = wi + 1
              /\ pc' = "sizeLoop"
              /\ UNCHANGED x
    /\ UNCHANGED <<env, code, nativeCode, debugContext, canvasWrites, scale, y,
                   probes, skipped, onDecodeCalls, onDebugImageCalls, result>>

\* line 94: y <= scaledHeight - windowSize, then x = 0
YLoop ==
    /\ pc = "yLoop"
    /\ IF y <= scaledHeight - windowSize
         THEN /\ x' = 0
              /\ pc' = "xLoop"
              /\ UNCHANGED wi
         ELSE /\ wi' = wi + 1
              /\ pc' = "sizeLoop"
              /\ UNCHANGED x
    /\ UNCHANGED <<env, code, nativeCode, debugContext, canvasWrites, scale, y, probes, skipped,
                   onDecodeCalls, onDebugImageCalls, result>>

\* XLoop that ends a row with y += windowSize, forgetting the overlap
\* XLoop that lets a window start anywhere in the row
XLoopToFrameEdge ==
    /\ pc = "xLoop"
    /\ IF x <= scaledWidth - 1
         THEN /\ pc' = "probe"
              /\ UNCHANGED y
         ELSE /\ y' = y + stepSize
              /\ pc' = "yLoop"
    /\ UNCHANGED <<env, code, nativeCode, debugContext, canvasWrites, scale, wi, x, probes,
                   skipped, onDecodeCalls, onDebugImageCalls, result>>

XLoopStepIsWindow ==
    /\ pc = "xLoop"
    /\ IF x <= scaledWidth - windowSize
         THEN /\ pc' = "probe"
              /\ UNCHANGED y
         ELSE /\ y' = y + windowSize
              /\ pc' = "yLoop"
    /\ UNCHANGED <<env, code, nativeCode, debugContext, canvasWrites, scale, wi, x,
                   probes, skipped, onDecodeCalls, onDebugImageCalls, result>>

\* line 95: x <= scaledWidth - windowSize; at the end of a row y += stepSize
XLoop ==
    /\ pc = "xLoop"
    /\ IF x <= scaledWidth - windowSize
         THEN /\ pc' = "probe"
              /\ UNCHANGED y
         ELSE /\ y' = y + stepSize
              /\ pc' = "yLoop"
    /\ UNCHANGED <<env, code, nativeCode, debugContext, canvasWrites, scale, wi, x, probes,
                   skipped, onDecodeCalls, onDebugImageCalls, result>>

\* Probe that hands the debug image off after every window
ProbeHandsOffEachProbe ==
    /\ pc = "probe"
    /\ MayProbe(WindowProbe(scale, wi, windowSize, x, y))
    /\ LET drawn == IF debugContext /\ scannerSettings.debugMode
                      THEN Append(canvasWrites, Rect("probe", scale, windowSize, x, y))
                      ELSE canvasWrites
       IN \E c \in DecodeOutcomes(WindowProbe(scale, wi, windowSize, x, y)) :
            /\ probes' = Append(probes, WindowProbe(scale, wi, windowSize, x, y))
            /\ code' = c
            /\ IF c \in Payloads
                 THEN /\ onDecodeCalls' = Append(onDecodeCalls, c)
                      /\ IF debugContext /\ scannerSettings.debugMode
                           THEN /\ canvasWrites' =
                                     Append(drawn, Rect("found", scale, windowSize, x, y))
                                /\ onDebugImageCalls' = Append(onDebugImageCalls, "dataURL")
                           ELSE /\ canvasWrites' = drawn
                                /\ UNCHANGED onDebugImageCalls
                      /\ result' = "true"
                      /\ pc' = "done"
                      /\ UNCHANGED x
                 ELSE /\ canvasWrites' = drawn
                      /\ onDebugImageCalls' =
                           IF debugContext /\ scannerSettings.debugMode
                             THEN Append(onDebugImageCalls, "dataURL")
                             ELSE onDebugImageCalls
                      /\ x' = x + stepSize
                      /\ pc' = "xLoop"
                      /\ UNCHANGED <<onDecodeCalls, result>>
    /\ UNCHANGED <<env, nativeCode, debugContext, scale, wi, y, skipped>>

\* Probe that strokes the probe rectangle only after a decode that failed
ProbeRectAfterDecode ==
    /\ pc = "probe"
    /\ MayProbe(WindowProbe(scale, wi, windowSize, x, y))
    /\ LET drawn == IF debugContext /\ scannerSettings.debugMode
                      THEN Append(canvasWrites, Rect("probe", scale, windowSize, x, y))
                      ELSE canvasWrites
       IN \E c \in DecodeOutcomes(WindowProbe(scale, wi, windowSize, x, y)) :
            /\ probes' = Append(probes, WindowProbe(scale, wi, windowSize, x, y))
            /\ code' = c
            /\ IF c \in Payloads
                 THEN /\ onDecodeCalls' = Append(onDecodeCalls, c)
                      /\ IF debugContext /\ scannerSettings.debugMode
                           THEN /\ canvasWrites' =
                                     Append(canvasWrites, Rect("found", scale, windowSize, x, y))
                                /\ onDebugImageCalls' = Append(onDebugImageCalls, "dataURL")
                           ELSE /\ canvasWrites' = canvasWrites
                                /\ UNCHANGED onDebugImageCalls
                      /\ result' = "true"
                      /\ pc' = "done"
                      /\ UNCHANGED x
                 ELSE /\ canvasWrites' = drawn
                      /\ x' = x + stepSize
                      /\ pc' = "xLoop"
                      /\ UNCHANGED <<onDecodeCalls, onDebugImageCalls, result>>
    /\ UNCHANGED <<env, nativeCode, debugContext, scale, wi, y, skipped>>

\* lines 96-140: one window: probe rectangle, decode inside try/catch, on
\* success onDecode, found rectangle, onDebugImage, return true; else
\* x += stepSize
Probe ==
    /\ pc = "probe"
    /\ MayProbe(WindowProbe(scale, wi, windowSize, x, y))
    /\ LET drawn == IF debugContext /\ scannerSettings.debugMode
                      THEN Append(canvasWrites, Rect("probe", scale, windowSize, x, y))
                      ELSE canvasWrites
       IN \E c \in DecodeOutcomes(WindowProbe(scale, wi, windowSize, x, y)) :
            /\ probes' = Append(probes, WindowProbe(scale, wi, windowSize, x, y))
            /\ code' = c
            /\ IF c \in Payloads
                 THEN /\ onDecodeCalls' = Append(onDecodeCalls, c)
                      /\ IF debugContext /\ scannerSettings.debugMode
                           THEN /\ canvasWrites' =
                                     Append(drawn, Rect("found", scale, windowSize, x, y))
                                /\ onDebugImageCalls' = Append(onDebugImageCalls, "dataURL")
                           ELSE /\ canvasWrites' = drawn
                                /\ UNCHANGED onDebugImageCalls
                      /\ result' = "true"
                      /\ pc' = "done"
                      /\ UNCHANGED x
                 ELSE /\ canvasWrites' = drawn
                      /\ x' = x + stepSize
                      /\ pc' = "xLoop"
                      /\ UNCHANGED <<onDecodeCalls, onDebugImageCalls, result>>
    /\ UNCHANGED <<env, nativeCode, debugContext, scale, wi, y, skipped>>

\* lines 145-150
Exhaust ==
    /\ pc = "exhaust"
    /\ IF debugContext /\ scannerSettings.debugMode /\ debugCanvas # "noref"
         THEN onDebugImageCalls' = Append(onDebugImageCalls, "dataURL")
         ELSE UNCHANGED onDebugImageCalls
    /\ result' = "false"
    /\ pc' = "done"
    /\ UNCHANGED <<env, code, nativeCode, debugContext, canvasWrites, scale, wi, x, y, probes,
                   skipped, onDecodeCalls>>

Next ==
    \/ NativePass
    \/ Gate
    \/ DebugSetup
    \/ ScaleLoop
    \/ Resample
    \/ FrameAttempt
    \/ SizeLoop
    \/ YLoop
    \/ XLoop
    \/ Probe
    \/ Exhaust

Spec == Init /\ [][Next]_vars

\* The end-to-end example of the specification: a 1000 x 1000 image scanned
\* with minScale = maxScale = 0.5, scaleStep = 1, windowSizes = [300] and
\* windowOverlap = 0.25, by the same operations.
InitExample ==
    /\ scannerSettings \in
         [useAdvancedScanning : BOOLEAN,
          debugMode           : BOOLEAN,
          minScale            : {ScaleDen \div 2},
          maxScale            : {ScaleDen \div 2},
          scaleStep           : {ScaleDen},
          windowOverlap       : {OvDen \div 4},
          windowSizes         : {<<300>>}]
    /\ width = 1000
    /\ height = 1000
    /\ debugCanvas \in {"noref", "noctx", "ok"}
    /\ pc = "native"
    /\ debugContext = FALSE
    /\ canvasWrites = <<>>
    /\ scale = 0
    /\ wi = 0
    /\ x = 0
    /\ y = 0
    /\ probes = <<>>
    /\ skipped = {}
    /\ code = "none"
    /\ nativeCode = "none"
    /\ onDecodeCalls = <<>>
    /\ onDebugImageCalls = <<>>
    /\ result = "none"
    /\ AppInitial

ExampleSpec == InitExample /\ [][Next]_vars

\* ---------------------------------------------------------------------
\* The scale loop in the arithmetic of the language.  scale, minScale,
\* maxScale and scaleStep are numbers, that is IEEE 754 binary64 values;
\* the specification below runs lines 46-88 on them, where Spec runs the
\* loop on exact multiples of 1/ScaleDen.
\*
\* A natural number is the sequence of its binary digits, least
\* significant first; a positive double is [m, e] with m of 53 digits, the
\* highest one 1, standing for m * 2^e.

RECURSIVE Bits(_)
Bits(n) == IF n = 0 THEN <<>> ELSE <<n % 2>> \o Bits(n \div 2)

\* the k lowest digits of n
BitsOf(n, k) == [i \in 1..k |-> (n \div 2^(i - 1)) % 2]

\* the number of a digit sequence, by halves
RECURSIVE BitsValue(_)
BitsValue(b) ==
    IF b = <<>> THEN 0
    ELSE IF Len(b) = 1 THEN b[1]
    ELSE LET h == Len(b) \div 2
         IN  BitsValue(SubSeq(b, 1, h)) + 2^h * BitsValue(SubSeq(b, h + 1, Len(b)))

Trim(b) ==
    IF \A i \in 1..Len(b) : b[i] = 0
      THEN <<>>
      ELSE SubSeq(b, 1, CHOOSE i \in 1..Len(b) :
                           b[i] = 1 /\ \A j \in (i + 1)..Len(b) : b[j] = 0)

Zeros(n) == [i \in 1..n |-> 0]

ShiftLeft(b, n) == IF b = <<>> THEN b ELSE Zeros(n) \o b

\* a + b + carry for sequences of one length, fifteen digits at a time
RECURSIVE AddChunks(_, _, _)
AddChunks(a, b, carry) ==
    IF a = <<>>
      THEN IF carry = 1 THEN <<1>> ELSE <<>>
      ELSE LET k == IF Len(a) < 15 THEN Len(a) ELSE 15
               s == BitsValue(SubSeq(a, 1, k)) + BitsValue(SubSeq(b, 1, k)) + carry
           IN  BitsOf(s % 2^k, k)
                 \o AddChunks(SubSeq(a, k + 1, Len(a)), SubSeq(b, k + 1, Len(b)), s \div 2^k)

BitsAdd(a, b) ==
    LET n == IF Len(a) >= Len(b) THEN Len(a) ELSE Len(b)
    IN  Trim(AddChunks(a \o Zeros(n - Len(a)), b \o Zeros(n - Len(b)), 0))

\* a * n + carry for a number n below 2^15, fifteen digits at a time
RECURSIVE MulChunks(_, _, _)
MulChunks(a, n, carry) ==
    IF a = <<>>
      THEN Bits(carry)
      ELSE LET k == IF Len(a) < 15 THEN Len(a) ELSE 15
               s == BitsValue(SubSeq(a, 1, k)) * n + carry
           IN  BitsOf(s % 2^k, k) \o MulChunks(SubSeq(a, k + 1, Len(a)), n, s \div 2^k)

BitsMul(a, n) == Trim(MulChunks(a, n, 0))

\* a <= b, for digit sequences without leading zeros
BitsLeq(a, b) ==
    IF Len(a) # Len(b)
      THEN Len(a) < Len(b)
      ELSE \/ a = b
           \/ \E i \in 1..Len(a) :
                 a[i] < b[i] /\ \A j \in (i + 1)..Len(a) : a[j] = b[j]

\* the double nearest to n * 2^e (n > 0), ties to the even significand
RoundToDouble(n, e) ==
    LET b == Trim(n)
        L == Len(b)
    IN  IF L <= 53
          THEN [m |-> Zeros(53 - L) \o b, e |-> e - (53 - L)]
          ELSE LET k      == L - 53
                   kept   == SubSeq(b, k + 1, L)
                   sticky == \E i \in 1..(k - 1) : b[i] = 1
                   up     == b[k] = 1 /\ (sticky \/ kept[1] = 1)
                   r      == IF up THEN BitsAdd(kept, <<1>>) ELSE kept
               IN  IF Len(r) = 54
                     THEN [m |-> Tail(r), e |-> e + k + 1]
                     ELSE [m |-> r, e |-> e + k]

\* the first 15 * k binary digits of r/d after the point (r < d), least
\* significant first, and what is left of r after them
RECURSIVE Fraction(_, _, _)
Fraction(r, d, k) ==
    IF k = 0
      THEN <<>>
      ELSE Fraction((r * 2^15) % d, d, k - 1) \o BitsOf((r * 2^15) \div d, 15)

RECURSIVE Remainder(_, _, _)
Remainder(r, d, k) == IF k = 0 THEN r ELSE Remainder((r * 2^15) % d, d, k - 1)

\* the value of a decimal literal of n hundredths (0.1 is NumberLiteral(10)):
\* 75 digits of the quotient and one more digit for a non-zero rest, rounded
NumberLiteral(n) ==
    RoundToDouble(<<IF Remainder(n % 100, 100, 5) = 0 THEN 0 ELSE 1>>
                    \o Fraction(n % 100, 100, 5) \o Bits(n \div 100), -76)

\* a + b of the language: the exact sum, rounded
NumberAdd(a, b) ==
    LET lo == IF a.e <= b.e THEN a.e ELSE b.e
    IN  RoundToDouble(BitsAdd(ShiftLeft(a.m, a.e - lo), ShiftLeft(b.m, b.e - lo)), lo)

\* a <= b of the language
NumberLeq(a, b) ==
    LET lo == IF a.e <= b.e THEN a.e ELSE b.e
    IN  BitsLeq(ShiftLeft(a.m, a.e - lo), ShiftLeft(b.m, b.e - lo))

\* Math.floor(dim * s) for an integer dim >= 1: the exact product, rounded,
\* then its integer part
MathFloorTimes(dim, s) ==
    LET p == RoundToDouble(BitsMul(s.m, dim), s.e)
    IN  IF p.e >= 0 THEN BitsValue(ShiftLeft(p.m, p.e))
        ELSE IF 0 - p.e >= 53 THEN 0
        ELSE BitsValue(SubSeq(p.m, 1 - p.e, 53))

\* settings in hundredths: minScale over the range of its slider (0.1 to 1.0
\* by 0.1), maxScale over the lower part of its slider (1.0 to 4.0 by 0.5),
\* scaleStep the default 0.25 or 0.1, the step of the minScale slider
MinScaleLiterals == {10 * k : k \in 1..10}
MaxScaleLiterals == {100, 150, 200}
ScaleStepLiterals == {10, 25}

\* line 46 is reached: the native pass found nothing, advanced scanning is
\* on, the debug mode is off, and the canvases give their contexts
InitDouble ==
    /\ scannerSettings \in
         [useAdvancedScanning : {TRUE},
          debugMode           : {FALSE},
          minScale            : {NumberLiteral(n) : n \in MinScaleLiterals},
          maxScale            : {NumberLiteral(n) : n \in MaxScaleLiterals},
          scaleStep           : {NumberLiteral(n) : n \in ScaleStepLiterals},
          windowOverlap       : {NumberLiteral(25)},
          windowSizes         : {<<>>}]
    /\ width \in {1, 1000}
    /\ height = 1000
    /\ debugCanvas = "ok"
    /\ pc = "scaleLoop"
    /\ debugContext = FALSE
    /\ canvasWrites = <<>>
    /\ scale = scannerSettings.minScale
    /\ wi = 0
    /\ x = 0
    /\ y = 0
    /\ probes = <<>>
    /\ skipped = {}
    /\ code = Null
    /\ nativeCode = Null
    /\ onDecodeCalls = <<>>
    /\ onDebugImageCalls = <<>>
    /\ result = "none"
    /\ AppInitial

\* lines 46-51 on doubles
DoubleScaleLoop ==
    /\ pc = "scaleLoop"
    /\ IF NumberLeq(scale, scannerSettings.maxScale)
         THEN IF MathFloorTimes(width, scale) <= 0 \/ MathFloorTimes(height, scale) <= 0
                THEN /\ scale' = NumberAdd(scale, scannerSettings.scaleStep)
                     /\ pc' = "scaleLoop"
                ELSE pc' = "frame" /\ UNCHANGED scale
         ELSE pc' = "exhaust" /\ UNCHANGED scale
    /\ UNCHANGED <<env, code, nativeCode, debugContext, canvasWrites, wi, x, y, probes, skipped,
                   onDecodeCalls, onDebugImageCalls, result>>

\* lines 54-143 on doubles, with no window size to go through: the decode
\* call on the whole frame, then scale += scaleStep of line 46
DoubleFrameAttempt ==
    /\ pc = "frame"
    /\ \E c \in {Null, Throw} \cup Payloads :
         /\ probes' = Append(probes, FrameProbe(scale))
         /\ code' = c
         /\ IF c \in Payloads
              THEN /\ onDecodeCalls' = Append(onDecodeCalls, c)
                   /\ result' = "true"
                   /\ pc' = "done"
                   /\ UNCHANGED scale
              ELSE /\ scale' = NumberAdd(scale, scannerSettings.scaleStep)
                   /\ pc' = "scaleLoop"
                   /\ UNCHANGED <<onDecodeCalls, result>>
    /\ UNCHANGED <<env, nativeCode, debugContext, canvasWrites, wi, x, y, skipped,
                   onDebugImageCalls>>

NextDouble ==
    \/ DoubleScaleLoop
    \/ DoubleFrameAttempt
    \/ Exhaust

DoubleSpec == InitDouble /\ [][NextDouble]_vars

\* ---------------------------------------------------------------------
\* The QRReader component.  In the specifications below scannerSettings is
\* the useState value of QRReader.tsx lines 46-54, with minScale, maxScale,
\* scaleStep and windowOverlap in hundredths; the variables of the scanner
\* stand still, a scan being one step of the component.

InitialSettings ==
    [useAdvancedScanning |-> TRUE,
     debugMode           |-> FALSE,
     minScale            |-> 50,
     maxScale            |-> 200,
     scaleStep           |-> 25,
     windowOverlap       |-> 25,
     windowSizes         |-> <<300, 500>>]

\* no scan is running
NoScan ==
    /\ width = 0
    /\ height = 0
    /\ debugCanvas = "ok"
    /\ pc = "idle"
    /\ debugContext = FALSE
    /\ canvasWrites = <<>>
    /\ scale = 0
    /\ wi = 0
    /\ x = 0
    /\ y = 0
    /\ probes = <<>>
    /\ skipped = {}
    /\ code = "none"
    /\ nativeCode = "none"
    /\ onDecodeCalls = <<>>
    /\ onDebugImageCalls = <<>>
    /\ result = "none"

scan == <<width, height, debugCanvas, pc, debugContext, canvasWrites, scale, wi, x, y,
          probes, skipped, code, nativeCode, onDecodeCalls, onDebugImageCalls, result>>

InitApp ==
    /\ scannerSettings = InitialSettings
    /\ NoScan
    /\ AppInitial

\* a maxScale slider that starts at 0
MaxScaleSliderFromZero == {50 * k : k \in 0..8}

\* the values of the maxScale slider: 1.0 to 4.0 by 0.5
MaxScaleSlider == {100 + 50 * k : k \in 0..6}

\* QRReader.tsx lines 128-133
handleSettingChange(setting, value) ==
    /\ scannerSettings' = [scannerSettings EXCEPT ![setting] = value]
    /\ UNCHANGED <<scan, app>>

\* QRReader.tsx lines 136-138, behind the button of lines 304-313
toggleAdvancedOptions ==
    /\ ~isLoading
    /\ showAdvancedOptions' = ~showAdvancedOptions
    /\ UNCHANGED <<scannerSettings, scan, decodedData, dataType, wifiCredentials, error,
                   isLoading, pdfProcessingState, debugImage, pdfjs, jobs, lastScan>>

\* AdvancedOptions.tsx lines 28-45: the two switches
SwitchChange ==
    /\ showAdvancedOptions
    /\ \E setting \in {"useAdvancedScanning", "debugMode"} :
         handleSettingChange(setting, ~scannerSettings[setting])

\* AdvancedOptions.tsx lines 50-68: the two sliders, disabled while advanced
\* scanning is off
SliderChange ==
    /\ showAdvancedOptions
    /\ scannerSettings.useAdvancedScanning
    /\ \/ \E value \in MinScaleLiterals : handleSettingChange("minScale", value)
       \/ \E value \in MaxScaleSlider : handleSettingChange("maxScale", value)

NextSettings ==
    \/ toggleAdvancedOptions
    \/ SwitchChange
    \/ SliderChange

SettingsSpec == InitApp /\ [][NextSettings]_vars

\* ---------------------------------------------------------------------
\* handleDecode.  A decoded string is a sequence of pieces of text, read as
\* their concatenation; the pieces are chosen so that what JSON.parse,
\* startsWith and match answer follows from the sequence.

SsidMember == "\"ssid\":\"s\""
PasswordMember == ",\"password\":\"p\""

Pieces ==
    {"null", "7", "{", "}", SsidMember, PasswordMember,
     "WIFI:", "S:s;", "P:p;", "T:t;", "http://", "https://", "x"}

DecodedStrings == UNION {[1..n -> Pieces] : n \in 0..MaxPieces}

\* JSON.parse(data): the literal null, a number (digits 7), or an object
\* { "ssid":"s" ,"password":"p" ... } with any number of members after the
\* first; anything else raises
JSONparse(data) ==
    LET inner == SubSeq(data, 2, Len(data) - 1)
    IN  IF data = <<"null">>
          THEN [kind |-> "null", keys |-> {}]
        ELSE IF data # <<>> /\ \A i \in 1..Len(data) : data[i] = "7"
          THEN [kind |-> "number", keys |-> {}]
        ELSE IF /\ Len(data) >= 2
                /\ data[1] = "{"
                /\ data[Len(data)] = "}"
                /\ inner # <<>> => inner[1] = SsidMember
                /\ \A i \in 2..Len(inner) : inner[i] = PasswordMember
          THEN [kind |-> "object",
                keys |-> (IF inner = <<>> THEN {} ELSE {"ssid"})
                            \cup (IF Len(inner) >= 2 THEN {"password"} ELSE {})]
        ELSE [kind |-> Throw, keys |-> {}]

\* data.startsWith(prefix), for a prefix that is a piece
startsWith(data, prefix) == data # <<>> /\ data[1] = prefix

\* data.match(/S:(.*?);/) and the like: the field piece occurs
match(data, field) == \E i \in 1..Len(data) : data[i] = field

WifiOfJson == [ssid |-> "s", password |-> "p", type |-> "WPA"]

WifiOfString(data) ==
    [ssid |-> "s", password |-> "p", type |-> IF match(data, "T:t;") THEN "t" ELSE "WPA"]

\* what follows a JSON.parse that raised, or a property read that raised
\* (handleDecode.ts lines 33-76)
DecodeCaught(data) ==
    IF startsWith(data, "WIFI:")
      THEN [decodedData |-> data, dataType |-> "wifi",
            wifiCredentials |-> IF match(data, "S:s;") /\ match(data, "P:p;")
                                  THEN Some(WifiOfString(data)) ELSE None]
    ELSE IF startsWith(data, "http://") \/ startsWith(data, "https://")
      THEN [decodedData |-> data, dataType |-> "url", wifiCredentials |-> None]
    ELSE [decodedData |-> data, dataType |-> "text", wifiCredentials |-> None]

\* handleDecode.ts lines 9-77: jsonData.ssid raises on null, inside the try
DecodeResult(data) ==
    LET jsonData == JSONparse(data)
    IN  IF jsonData.kind \in {Throw, "null"}
          THEN DecodeCaught(data)
          ELSE [decodedData |-> data, dataType |-> "json",
                wifiCredentials |-> IF {"ssid", "password"} \subseteq jsonData.keys
                                      THEN Some(WifiOfJson) ELSE None]

\* QRReader.tsx lines 80-125: the same decisions written into the state;
\* wifiCredentials is written only when credentials were found
handleDecode(data) ==
    /\ decodedData' = Some(data)
    /\ dataType' = DecodeResult(data).dataType
    /\ wifiCredentials' =
         IF DecodeResult(data).wifiCredentials # None
           THEN DecodeResult(data).wifiCredentials
           ELSE wifiCredentials

DecodeString ==
    /\ decodedData = None
    /\ \E data \in DecodedStrings : handleDecode(data)
    /\ UNCHANGED <<scannerSettings, scan, showAdvancedOptions, error, isLoading,
                   pdfProcessingState, debugImage, pdfjs, jobs, lastScan>>

DecodeSpec == InitApp /\ [][DecodeString]_vars

\* ---------------------------------------------------------------------
\* Files, pasted images and PDFs.  A job is one file or pasted image from
\* its event to the last of its callbacks; jobs[j].at names the callback it
\* waits for.  A call of scanWithSlidingWindow is one step, taken with one of
\* the outcomes the scanner has.

\* the strings the decode primitive finds in this part
AppPayloads == {<<"x">>, <<"WIFI:", "S:s;", "P:p;">>}

\* what a call of scanWithSlidingWindow leaves behind: the value returned or
\* Throw, the string given to onDecode, and whether onDebugImage was called
ScanOutcomes(settings) ==
    LET handOffs == IF settings.useAdvancedScanning /\ settings.debugMode
                      THEN BOOLEAN ELSE {FALSE}
    IN  {[returned |-> Throw, data |-> <<>>, handOff |-> FALSE]}
          \cup {[returned |-> "false", data |-> <<>>, handOff |-> h] : h \in handOffs}
          \cup {[returned |-> "true", data |-> d, handOff |-> h] :
                   d \in AppPayloads, h \in handOffs}

\* one upload or paste on its way through its callbacks: where it waits, the
\* pageNum and qrFound of the loop of processPdf, and how often it has called
\* onDecode
Job(kind, at, page, numPages, qrFound) ==
    [kind |-> kind, at |-> at, page |-> page, numPages |-> numPages, qrFound |-> qrFound,
     decodes |-> 0]

InFlight == {j \in 1..Len(jobs) : jobs[j].at # "done"}

Waiting(at) == {j \in 1..Len(jobs) : jobs[j].at = at}

Finished(j) == [jobs EXCEPT ![j].at = "done"]

\* the switches of the options panel, as they stand when the files come
InitFiles ==
    /\ scannerSettings \in
         {[InitialSettings EXCEPT !.useAdvancedScanning = a, !.debugMode = d] :
             a \in BOOLEAN, d \in BOOLEAN}
    /\ NoScan
    /\ AppInitial

\* QRReader.tsx lines 63-70: the import of pdfjs-dist settles
PdfjsImport ==
    /\ pdfjs = "pending"
    /\ \/ pdfjs' = "loaded" /\ UNCHANGED error
       \/ pdfjs' = "failed" /\ error' = "Could not load PDF processing library."
    /\ UNCHANGED <<scannerSettings, scan, showAdvancedOptions, decodedData, dataType,
                   wifiCredentials, isLoading, pdfProcessingState, debugImage, jobs,
                   lastScan>>

\* the body of handleFileChange for a file of each type
FileChosen ==
    /\ Len(jobs) < MaxJobs
    /\ decodedData' = None
    /\ dataType' = Null
    /\ wifiCredentials' = None
    /\ \E type \in {"application/pdf", "image/", "other"} :
         \/ /\ type = "application/pdf"
            /\ pdfjs # "loaded"
            /\ error' = "PDF processing library not loaded yet. Please try again in a moment."
            /\ pdfProcessingState' = [processing |-> FALSE]
            /\ UNCHANGED <<isLoading, debugImage, jobs>>
         \/ /\ type = "application/pdf"
            /\ pdfjs = "loaded"
            /\ debugImage' = None
            /\ error' = Null
            /\ pdfProcessingState' = [processing |-> TRUE]
            /\ isLoading' = TRUE
            /\ jobs' = Append(jobs, Job("pdf", "reader", 0, 0, FALSE))
         \/ /\ type = "image/"
            /\ error' = Null
            /\ pdfProcessingState' = [processing |-> FALSE]
            /\ jobs' = Append(jobs, Job("file", "reader", 0, 0, FALSE))
            /\ UNCHANGED <<isLoading, debugImage>>
         \/ /\ type = "other"
            /\ error' = "Unsupported file type. Please upload an image or a PDF."
            /\ pdfProcessingState' = [processing |-> FALSE]
            /\ UNCHANGED <<isLoading, debugImage, jobs>>
    /\ UNCHANGED <<scannerSettings, scan, showAdvancedOptions, pdfjs, lastScan>>

\* QRReader.tsx lines 140-196, behind the input of lines 292-299 (disabled
\* while isLoading), and processPdf up to its readAsArrayBuffer (part_002
\* lines 52-66, 149)
handleFileChange ==
    /\ ~isLoading
    /\ FileChosen

\* QRReader.tsx lines 198-239: a paste with or without an image item
handlePaste ==
    /\ error' = Null
    /\ decodedData' = None
    /\ dataType' = Null
    /\ wifiCredentials' = None
    /\ pdfProcessingState' = [processing |-> FALSE]
    /\ \E image \in BOOLEAN :
         IF image
           THEN /\ Len(jobs) < MaxJobs
                /\ jobs' = Append(jobs, Job("pasted", "reader", 0, 0, FALSE))
           ELSE UNCHANGED jobs
    /\ UNCHANGED <<scannerSettings, scan, showAdvancedOptions, isLoading, debugImage, pdfjs,
                   lastScan>>

\* the end of reader.onload and reader.onerror of processPdf (part_002 lines
\* 139-140, 145-146)
PdfSettled(j) ==
    /\ pdfProcessingState' = [processing |-> FALSE]
    /\ isLoading' = FALSE
    /\ jobs' = Finished(j)

\* reader.onload: QRReader.tsx lines 169-183 and 215-229 with processImageFile
\* up to img.src (clipboardHelper.ts lines 37-41, 89); part_002 lines 68-74
\* and 136-140
ReaderOnload ==
    \E j \in Waiting("reader") :
        /\ \/ /\ jobs[j].kind # "pdf"
              /\ isLoading' = TRUE
              /\ error' = Null
              /\ jobs' = [jobs EXCEPT ![j].at = "image"]
              /\ UNCHANGED pdfProcessingState
           \/ /\ jobs[j].kind # "pdf"
              /\ error' = IF jobs[j].kind = "file" THEN "Could not read image file."
                                                   ELSE "Could not read pasted image."
              /\ jobs' = Finished(j)
              /\ UNCHANGED <<isLoading, pdfProcessingState>>
           \/ /\ jobs[j].kind = "pdf"
              /\ jobs' = [jobs EXCEPT ![j].at = "getDocument"]
              /\ UNCHANGED <<error, isLoading, pdfProcessingState>>
           \/ /\ jobs[j].kind = "pdf"
              /\ error' = "Could not read PDF file data."
              /\ PdfSettled(j)
        /\ UNCHANGED <<scannerSettings, scan, showAdvancedOptions, decodedData, dataType,
                       wifiCredentials, debugImage, pdfjs, lastScan>>

\* reader.onerror: QRReader.tsx lines 184-186 and 230-232; part_002 lines
\* 143-147
ReaderOnerror ==
    \E j \in Waiting("reader") :
        /\ IF jobs[j].kind = "pdf"
             THEN /\ error' = "An error occurred while reading the file."
                  /\ PdfSettled(j)
             ELSE /\ error' = IF jobs[j].kind = "file"
                                THEN "An error occurred while reading the image file."
                                ELSE "An error occurred while reading the pasted image."
                  /\ jobs' = Finished(j)
                  /\ UNCHANGED <<isLoading, pdfProcessingState>>
        /\ UNCHANGED <<scannerSettings, scan, showAdvancedOptions, decodedData, dataType,
                       wifiCredentials, debugImage, pdfjs, lastScan>>

\* what a scan of page p of job j writes through setDebugImage
DebugImageAfter(o, j, p) == IF o.handOff THEN Some(<<j, p>>) ELSE debugImage

\* img.onload: clipboardHelper.ts lines 43-82
ImageOnload ==
    \E j \in Waiting("image") :
        /\ \/ /\ error' = "Could not get canvas context"
              /\ jobs' = Finished(j)
              /\ UNCHANGED <<decodedData, dataType, wifiCredentials, debugImage, lastScan>>
           \/ \E o \in ScanOutcomes(scannerSettings) :
                /\ debugImage' = DebugImageAfter(o, j, 0)
                /\ lastScan' = Some(<<j, 0>>)
                /\ IF o.returned = "true"
                     THEN /\ handleDecode(o.data)
                          /\ jobs' = [jobs EXCEPT ![j].at = "done", ![j].decodes = @ + 1]
                          /\ UNCHANGED error
                     ELSE /\ error' = IF o.returned = "false"
                                        THEN "No QR code found in the image"
                                        ELSE "Error processing image. Please try another file."
                          /\ jobs' = Finished(j)
                          /\ UNCHANGED <<decodedData, dataType, wifiCredentials>>
        /\ isLoading' = FALSE
        /\ UNCHANGED <<scannerSettings, scan, showAdvancedOptions, pdfProcessingState, pdfjs>>

\* ImageOnerror without its setIsLoading(false)
ImageOnerrorKeepsLoading ==
    \E j \in Waiting("image") :
        /\ error' = "Failed to load image. Please try another file."
        /\ jobs' = Finished(j)
        /\ UNCHANGED <<scannerSettings, scan, showAdvancedOptions, decodedData, dataType,
                       wifiCredentials, isLoading, pdfProcessingState, debugImage, pdfjs,
                       lastScan>>

\* img.onerror: clipboardHelper.ts lines 84-87
ImageOnerror ==
    \E j \in Waiting("image") :
        /\ error' = "Failed to load image. Please try another file."
        /\ isLoading' = FALSE
        /\ jobs' = Finished(j)
        /\ UNCHANGED <<scannerSettings, scan, showAdvancedOptions, decodedData, dataType,
                       wifiCredentials, pdfProcessingState, debugImage, pdfjs, lastScan>>

\* the catch of part_002 lines 127-135, then lines 139-140
PdfCaught(j) ==
    /\ error' \in {"Could not read PDF file.", "An unknown error occurred while reading the PDF."}
    /\ PdfSettled(j)

\* loadingTask.promise settles: part_002 lines 74-81, or the catch
GetDocumentSettles ==
    \E j \in Waiting("getDocument") :
        /\ \/ \E numPages \in 1..MaxPages :
                /\ pdfProcessingState' = [processing |-> TRUE]
                /\ jobs' = [jobs EXCEPT ![j] = Job("pdf", "getPage", 1, numPages, FALSE)]
                /\ UNCHANGED <<error, isLoading>>
           \/ PdfCaught(j)
        /\ UNCHANGED <<scannerSettings, scan, showAdvancedOptions, decodedData, dataType,
                       wifiCredentials, debugImage, pdfjs, lastScan>>

\* part_002 lines 86-90, then 123-125 and 139-140: the loop is left with
\* qrFound false, so the message of line 87 is written over by line 124
CanvasNotPrepared(j) ==
    LET atBreak == "Could not prepare canvas."
        qrFound == FALSE
    IN  /\ error' = IF ~qrFound THEN "No QR code found in the PDF." ELSE atBreak
        /\ PdfSettled(j)

\* pdf.getPage settles: part_002 lines 81-99
GetPageSettles ==
    \E j \in Waiting("getPage") :
        /\ \/ /\ jobs' = [jobs EXCEPT ![j].at = "render"]
              /\ UNCHANGED <<error, isLoading, pdfProcessingState>>
           \/ CanvasNotPrepared(j)
           \/ PdfCaught(j)
        /\ UNCHANGED <<scannerSettings, scan, showAdvancedOptions, decodedData, dataType,
                       wifiCredentials, debugImage, pdfjs, lastScan>>

\* RenderSettles that goes on to the next page after a page with a code
RenderSettlesNoBreak ==
    \E j \in Waiting("render") :
        /\ \/ \E o \in ScanOutcomes(scannerSettings) :
                LET last == jobs[j].page = jobs[j].numPages
                    found == jobs[j].qrFound \/ o.returned = "true"
                IN  /\ debugImage' = DebugImageAfter(o, j, jobs[j].page)
                    /\ lastScan' = Some(<<j, jobs[j].page>>)
                    /\ IF o.returned = "true"
                         THEN handleDecode(o.data)
                         ELSE UNCHANGED <<decodedData, dataType, wifiCredentials>>
                    /\ IF last
                         THEN /\ error' = IF ~found THEN "No QR code found in the PDF."
                                          ELSE IF o.returned = Throw
                                            THEN "Error processing page."
                                          ELSE error
                              /\ pdfProcessingState' = [processing |-> FALSE]
                              /\ isLoading' = FALSE
                              /\ jobs' = [jobs EXCEPT ![j].at = "done",
                                                      ![j].qrFound = found,
                                                      ![j].decodes =
                                                          IF o.returned = "true"
                                                            THEN @ + 1 ELSE @]
                         ELSE /\ error' = IF o.returned = Throw
                                            THEN "Error processing page." ELSE error
                              /\ pdfProcessingState' = [processing |-> TRUE]
                              /\ jobs' = [jobs EXCEPT ![j].at = "getPage",
                                                      ![j].page = jobs[j].page + 1,
                                                      ![j].qrFound = found,
                                                      ![j].decodes =
                                                          IF o.returned = "true"
                                                            THEN @ + 1 ELSE @]
                              /\ UNCHANGED isLoading
           \/ /\ PdfCaught(j)
              /\ UNCHANGED <<decodedData, dataType, wifiCredentials, debugImage, lastScan>>
        /\ UNCHANGED <<scannerSettings, scan, showAdvancedOptions, pdfjs>>

\* page.render settles: part_002 lines 99-125 and 139-140, and lines 78-81
\* when the loop goes on
RenderSettles ==
    \E j \in Waiting("render") :
        /\ \/ \E o \in ScanOutcomes(scannerSettings) :
                LET last == jobs[j].page = jobs[j].numPages
                IN  /\ debugImage' = DebugImageAfter(o, j, jobs[j].page)
                    /\ lastScan' = Some(<<j, jobs[j].page>>)
                    /\ IF o.returned = "true"
                         THEN /\ handleDecode(o.data)
                              /\ pdfProcessingState' = [processing |-> FALSE]
                              /\ isLoading' = FALSE
                              /\ jobs' = [jobs EXCEPT ![j].at = "done",
                                                      ![j].qrFound = TRUE,
                                                      ![j].decodes = @ + 1]
                              /\ UNCHANGED error
                         ELSE /\ UNCHANGED <<decodedData, dataType, wifiCredentials>>
                              /\ IF last
                                   THEN /\ error' = "No QR code found in the PDF."
                                        /\ PdfSettled(j)
                                   ELSE /\ error' = IF o.returned = Throw
                                                      THEN "Error processing page." ELSE error
                                        /\ pdfProcessingState' = [processing |-> TRUE]
                                        /\ jobs' = [jobs EXCEPT ![j].at = "getPage",
                                                                ![j].page = jobs[j].page + 1]
                                        /\ UNCHANGED isLoading
           \/ /\ PdfCaught(j)
              /\ UNCHANGED <<decodedData, dataType, wifiCredentials, debugImage, lastScan>>
        /\ UNCHANGED <<scannerSettings, scan, showAdvancedOptions, pdfjs>>

NextFiles ==
    \/ PdfjsImport
    \/ handleFileChange
    \/ handlePaste
    \/ ReaderOnload
    \/ ReaderOnerror
    \/ ImageOnload
    \/ ImageOnerror
    \/ GetDocumentSettles
    \/ GetPageSettles
    \/ RenderSettles

FilesSpec == InitFiles /\ [][NextFiles]_vars

\* the scanner is one synchronous call: every step that can run does run
FairSpec == Spec /\ WF_vars(Next)

TypeOK ==
    /\ scannerSettings \in ScannerSettings
    /\ pc \in {"native", "gate", "debugSetup", "scaleLoop", "resample", "frame",
               "sizeLoop", "yLoop", "xLoop", "probe", "exhaust", "done", "threw"}
    /\ result \in {"none", "true", "false"}
    /\ debugContext \in BOOLEAN

\* ------------------------------------------------------------- claims
PastNative == pc \notin {"native", "threw"} /\ nativeCode = Null
\* settings as the data model asks for them: a positive step, a non-empty range
WellFormed ==
    /\ scannerSettings.scaleStep > 0
    /\ scannerSettings.minScale <= scannerSettings.maxScale
Returned == pc = "done"
LastProbe == probes[Len(probes)]

\* C1: when the jsQR call on the unmodified buffer gives a payload, the scan
\* has returned true, onDecode got exactly that payload, that call is the
\* only decode call, no scale was entered or skipped, nothing was written to
\* the debug canvas and onDebugImage was not called, whatever the settings.
C1_NativeShortCircuit ==
    nativeCode \in Payloads =>
        /\ pc = "done"
        /\ result = "true"
        /\ onDecodeCalls = <<nativeCode>>
        /\ probes = <<NativeProbe>>
        /\ skipped = {}
        /\ canvasWrites = <<>>
        /\ onDebugImageCalls = <<>>
        /\ ~debugContext

C1_Witness ==
    /\ nativeCode = "B"
    /\ pc = "done"
    /\ scannerSettings.debugMode
    /\ scannerSettings.useAdvancedScanning
    /\ debugCanvas = "ok"

\* C2: with useAdvancedScanning false and a native call that gives nothing,
\* the scan is at the gate or has returned false, with exactly one decode
\* call, no onDecode call and no onDebugImage call, whatever the other settings.
C2_DisabledStopsEarly ==
    (~scannerSettings.useAdvancedScanning /\ nativeCode = Null) =>
        /\ pc \in {"gate", "done"}
        /\ pc = "done" => result = "false"
        /\ pc = "gate" => result = "none"
        /\ probes = <<NativeProbe>>
        /\ onDecodeCalls = <<>>
        /\ onDebugImageCalls = <<>>
        /\ canvasWrites = <<>>

C2_Witness ==
    /\ ~scannerSettings.useAdvancedScanning
    /\ nativeCode = Null
    /\ pc = "done"
    /\ result = "false"
    /\ scannerSettings.debugMode
    /\ scannerSettings.minScale <= scannerSettings.maxScale
    /\ scannerSettings.scaleStep > 0
    /\ Len(scannerSettings.windowSizes) = 2

\* The order of the claims, written down independently of the loops: the
\* scales minScale + i * scaleStep up to maxScale that give a non-empty
\* frame, the positions 0, step, 2 * step, ... that leave room for a window.
OrderScales ==
    {s \in scannerSettings.minScale .. scannerSettings.maxScale :
        /\ (s - scannerSettings.minScale) % scannerSettings.scaleStep = 0
        /\ ScaledDim(width, s) > 0
        /\ ScaledDim(height, s) > 0}

OrderPositions(dim, ws) ==
    LET st == StepSize(ws, scannerSettings.windowOverlap)
    IN {p \in 0..(dim - ws) : IF st = 0 THEN p = 0 ELSE p % st = 0}

OrderProbes ==
    {NativeProbe}
    \cup {FrameProbe(s) : s \in OrderScales}
    \cup UNION {UNION {
            {WindowProbe(s, i, scannerSettings.windowSizes[i], px, py) :
                px \in OrderPositions(ScaledDim(width, s), scannerSettings.windowSizes[i]),
                py \in OrderPositions(ScaledDim(height, s), scannerSettings.windowSizes[i])} :
            i \in 1..Len(scannerSettings.windowSizes)} : s \in OrderScales}

\* native first, then scale ascending, whole frame before windows, window
\* sizes in list order, rows top to bottom, columns left to right
OrderKey(p) == <<IF p.kind = "native" THEN 0 ELSE 1, p.scale, p.wi, p.y, p.x>>

LexLess(a, b) ==
    \E k \in 1..5 : a[k] < b[k] /\ \A j \in 1..(k - 1) : a[j] = b[j]

Earlier(p, q) == LexLess(OrderKey(p), OrderKey(q))

\* the same window tried again by a loop whose step is 0
StuckRepeat(p, q) ==
    p = q /\ p.kind = "window" /\ StepSize(p.size, scannerSettings.windowOverlap) = 0

\* C3: with a positive scaleStep the decode calls follow the fixed order
\* (native; per ascending scale the whole frame, then per window size in list
\* order the windows row by row); every probe that precedes the latest call
\* in that order was tried, unless its scale was left for lack of a canvas
\* context; the payload handed to onDecode is the one the latest call gave,
\* and after it no further step is taken.
C3_FirstMatchInOrder ==
    scannerSettings.scaleStep > 0 =>
        /\ Attempted \subseteq OrderProbes
        /\ \A i \in 1..Len(probes) : \A j \in (i + 1)..Len(probes) :
              Earlier(probes[i], probes[j]) \/ StuckRepeat(probes[i], probes[j])
        /\ \A q \in OrderProbes :
              (probes # <<>> /\ Earlier(q, LastProbe)) =>
                  (q \in Attempted \/ q.scale \in skipped)
        /\ onDecodeCalls # <<>> =>
              /\ onDecodeCalls = <<code>>
              /\ code \in Payloads
              /\ ~ENABLED Next

\* a success on the second row of the second window size, with a later
\* window that never got its turn
C3_Witness ==
    /\ scannerSettings.scaleStep > 0
    /\ result = "true"
    /\ onDecodeCalls = <<"A">>
    /\ LastProbe.kind = "window"
    /\ LastProbe.wi = 2
    /\ LastProbe.x = 0
    /\ LastProbe.y > 0
    /\ skipped = {}
    /\ \E q \in OrderProbes : Earlier(LastProbe, q)

\* C4: minScale = maxScale = scaleStep = 1, windowSizes = [W], windowOverlap
\* = 0, an H x H image with H a multiple of W, every canvas context at hand
\* and no decode success: when the scan returns, it returns false and the
\* windows it tried are the (H/W)^2 windows at (i * W, j * W), each once.
TilingCase ==
    /\ scannerSettings.useAdvancedScanning
    /\ scannerSettings.minScale = ScaleDen
    /\ scannerSettings.maxScale = ScaleDen
    /\ scannerSettings.scaleStep = ScaleDen
    /\ scannerSettings.windowOverlap = 0
    /\ Len(scannerSettings.windowSizes) = 1
    /\ width = height
    /\ height % scannerSettings.windowSizes[1] = 0
    /\ skipped = {}

WindowsTried == {i \in 1..Len(probes) : probes[i].kind = "window"}

C4_ExhaustiveTiling ==
    (TilingCase /\ pc = "done" /\ onDecodeCalls = <<>>) =>
        LET W == scannerSettings.windowSizes[1]
            n == height \div W
        IN /\ result = "false"
           /\ Cardinality(WindowsTried) = n * n
           /\ {<<probes[i].x, probes[i].y>> : i \in WindowsTried}
                 = {<<i * W, j * W>> : i \in 0..(n - 1), j \in 0..(n - 1)}
           /\ \A i \in WindowsTried : probes[i].size = W /\ probes[i].scale = ScaleDen

C4_Witness ==
    /\ TilingCase
    /\ pc = "done"
    /\ result = "false"
    /\ height = 2
    /\ scannerSettings.windowSizes = <<1>>
    /\ Cardinality(WindowsTried) = 4

\* C5: with debugMode on, well-formed settings and the debug canvas at hand,
\* every scan that went past the native pass into advanced scanning has
\* handed a diagnostic image to onDebugImage by the time it returns,
\* whichever way it returns.
C5_DiagnosticOnEveryExit ==
    (/\ scannerSettings.debugMode
     /\ WellFormed
     /\ debugCanvas = "ok"
     /\ scannerSettings.useAdvancedScanning
     /\ PastNative
     /\ Returned) => onDebugImageCalls # <<>>

\* C6: with debugMode off nothing is written to the debug canvas, no debug
\* context is taken and onDebugImage is never called.
C6_NoDiagnosticWhenOff ==
    ~scannerSettings.debugMode =>
        /\ onDebugImageCalls = <<>>
        /\ canvasWrites = <<>>
        /\ ~debugContext

C6_Witness ==
    /\ ~scannerSettings.debugMode
    /\ debugCanvas = "ok"
    /\ Returned
    /\ result = "true"
    /\ LastProbe.kind = "window"

\* C7: onDecode is called at most once in a scan; it has been called exactly
\* when the scan has returned true, and a scan that returned false or raised
\* never called it.
C7_OneDecodeReport ==
    /\ Len(onDecodeCalls) <= 1
    /\ (Len(onDecodeCalls) = 1) <=> (result = "true")
    /\ result = "true" => (Returned /\ onDecodeCalls = <<code>>)
    /\ (result = "false" \/ pc = "threw") => onDecodeCalls = <<>>
    /\ Returned <=> (result # "none")

C7_Witness ==
    /\ result = "true"
    /\ LastProbe.kind = "frame"
    /\ Len(probes) > 3
    /\ Len(onDecodeCalls) = 1

\* C8: under well-formed settings the window loops strictly advance: a
\* window that did not decode is followed by a larger x, and a finished row
\* by a larger y, for every window size and every windowOverlap in [0,1).
C8_WindowLoopsAdvance ==
    [][WellFormed =>
         /\ (pc = "probe" /\ pc' = "xLoop") => x' > x
         /\ (pc = "xLoop" /\ pc' = "yLoop") => y' > y]_vars

\* C9: with scaleStep <= 0 the scale loop body is never entered: past the
\* native pass the scan only sets up, tests the loop condition once and
\* returns false, with the native call as its only decode call.
C9_NonPositiveStepNoIteration ==
    (scannerSettings.scaleStep <= 0 /\ scannerSettings.useAdvancedScanning /\ PastNative) =>
        /\ pc \in {"gate", "debugSetup", "scaleLoop", "exhaust", "done"}
        /\ probes = <<NativeProbe>>
        /\ pc \in {"scaleLoop", "exhaust", "done"} => scale = scannerSettings.minScale
        /\ Returned => result = "false"

\* C10: with minScale > maxScale and scaleStep > 0 the scale loop body is
\* never entered: the native call is the only decode call, and a returned
\* scan returned true exactly when the native call gave a payload.
C10_EmptyScaleRange ==
    (scannerSettings.minScale > scannerSettings.maxScale /\ scannerSettings.scaleStep > 0) =>
        /\ Len(probes) <= 1
        /\ pc \notin {"resample", "frame", "sizeLoop", "yLoop", "xLoop", "probe"}
        /\ skipped = {}
        /\ Returned => ((result = "true") <=> (nativeCode \in Payloads))
        /\ Returned => probes = <<NativeProbe>>

C10_Witness ==
    /\ scannerSettings.minScale > scannerSettings.maxScale
    /\ scannerSettings.scaleStep > 0
    /\ scannerSettings.useAdvancedScanning
    /\ scannerSettings.windowSizes # <<>>
    /\ nativeCode = Null
    /\ Returned
    /\ result = "false"

\* C11: an exception raised by the decode primitive on a probe, the native
\* full frame included, counts as nothing found for that probe: the scan goes
\* on and the exception never leaves scanWithSlidingWindow.
C11_ProbeFailureNeverAborts ==
    code = Throw => (pc # "threw" /\ (Returned => result \in {"true", "false"}))

IsProbeRect(w) == w.op = "probe"
IsFoundRect(w) == w.op = "found"
IsWindow(p) == p.kind = "window"
ProbeRects == SelectSeq(canvasWrites, IsProbeRect)
FoundRects == SelectSeq(canvasWrites, IsFoundRect)
WindowProbes == SelectSeq(probes, IsWindow)

\* the rectangle x / scale, y / scale, windowSize / scale is the window p
\* of the scaled frame projected back onto the original image
RectOfWindow(r, p) ==
    /\ r.x * p.scale = p.x * r.scale
    /\ r.y * p.scale = p.y * r.scale
    /\ r.size * p.scale = p.size * r.scale
    /\ r.scale = p.scale

\* C12: with a debug context in use, the probe rectangles on the canvas are,
\* one for one and in order, the windows handed to the decode primitive so
\* far; a found rectangle exists only once the scan returned true on a
\* window, it is the last write and it is that window's rectangle.
C12_RectsMatchProbes ==
    debugContext =>
        /\ Len(ProbeRects) = Len(WindowProbes)
        /\ \A i \in 1..Len(ProbeRects) : RectOfWindow(ProbeRects[i], WindowProbes[i])
        /\ Len(FoundRects) <= 1
        /\ FoundRects # <<>> <=> (result = "true" /\ LastProbe.kind = "window")
        /\ FoundRects # <<>> =>
              /\ canvasWrites[Len(canvasWrites)] = FoundRects[1]
              /\ RectOfWindow(FoundRects[1], LastProbe)
              /\ onDebugImageCalls = <<"dataURL">>

C12_Witness ==
    /\ debugContext
    /\ onDebugImageCalls # <<>>
    /\ result = "true"
    /\ Len(WindowProbes) >= 3
    /\ Len(FoundRects) = 1

\* the window p of the scaled frame contains the square of the given side
\* whose top left corner is (cx, cy)
Contains(p, cx, cy, side) ==
    /\ p.kind = "window"
    /\ p.x <= cx /\ cx + side <= p.x + p.size
    /\ p.y <= cy /\ cy + side <= p.y + p.size

\* C13: in the end-to-end example the resampled frame is 500 x 500 and,
\* wherever the 75 x 75 code region lies in that frame, a scan that tried
\* everything has probed at least one 300-wide window that contains it.
C13_ExampleCoverage ==
    (Returned /\ result = "false" /\ scannerSettings.useAdvancedScanning /\ skipped = {}) =>
        /\ ScaledDim(width, scannerSettings.minScale) = 500
        /\ ScaledDim(height, scannerSettings.minScale) = 500
        /\ \A cx \in 0..(ScaledDim(width, scannerSettings.minScale) - 75) :
           \A cy \in 0..(ScaledDim(height, scannerSettings.minScale) - 75) :
              \E i \in 1..Len(probes) : Contains(probes[i], cx, cy, 75)

\* the current window size does not fit the resampled frame
Oversize == windowSize > scaledWidth \/ windowSize > scaledHeight

\* C14: under well-formed settings, while the window loops run for a size
\* that does not fit the resampled frame on either axis, no window is
\* probed, no rectangle is drawn, nothing is raised, and the loops move on:
\* a frame too low ends the y loop at once, a frame too narrow ends every
\* row at once and the y loop advances to its end.
C14_OversizeWindowSkipped ==
    [][(WellFormed /\ pc \in {"yLoop", "xLoop"} /\ Oversize) =>
         /\ pc' \notin {"probe", "threw"}
         /\ probes' = probes
         /\ canvasWrites' = canvasWrites
         /\ (pc = "yLoop" /\ windowSize > scaledHeight) => (pc' = "sizeLoop" /\ wi' = wi + 1)
         /\ pc = "xLoop" => (pc' = "yLoop" /\ y' > y)]_vars

\* C15: with windowSizes empty, advanced scanning on and a positive
\* scaleStep, no window is ever probed and no rectangle drawn; the decode
\* calls are the native one and at most one whole-frame call per scale of
\* the range, and a scan that found nothing returns false after a
\* whole-frame call at every such scale whose canvas context was there.
C15_EmptyWindowSizes ==
    (/\ scannerSettings.windowSizes = <<>>
     /\ scannerSettings.useAdvancedScanning
     /\ scannerSettings.scaleStep > 0) =>
        /\ WindowProbes = <<>>
        /\ pc \notin {"yLoop", "xLoop", "probe"}
        /\ ProbeRects = <<>> /\ FoundRects = <<>>
        /\ Cardinality(Attempted) = Len(probes)
        /\ Attempted \subseteq {NativeProbe} \cup {FrameProbe(s) : s \in OrderScales}
        /\ (Returned /\ onDecodeCalls = <<>>) =>
              /\ result = "false"
              /\ \A s \in OrderScales \ skipped : FrameProbe(s) \in Attempted

C15_Witness ==
    /\ scannerSettings.windowSizes = <<>>
    /\ scannerSettings.scaleStep > 0
    /\ Returned
    /\ result = "false"
    /\ Len(probes) = 3
    /\ skipped = {}

\* C16: with a positive scaleStep, a scale whose canvas context was missing
\* gets no decode call at all, the step that leaves it goes back to the loop
\* test with the next scale and makes no call, and a scan that then returns
\* false has made the whole-frame call at every other scale of the range.
C16_ResampleFailureSkipsScale ==
    /\ []( scannerSettings.scaleStep > 0 =>
             /\ \A i \in 1..Len(probes) :
                   probes[i].kind # "native" => probes[i].scale \notin skipped
             /\ pc # "threw" \/ skipped = {}
             /\ (Returned /\ result = "false" /\ skipped # {}) =>
                   \A s \in OrderScales \ skipped : FrameProbe(s) \in Attempted )
    /\ [][skipped' # skipped =>
             /\ pc' = "scaleLoop"
             /\ scale' = scale + scannerSettings.scaleStep
             /\ skipped' = skipped \cup {scale}
             /\ probes' = probes]_vars

C16_Witness ==
    /\ scannerSettings.scaleStep > 0
    /\ skipped # {}
    /\ Returned
    /\ \E i \in 1..Len(probes) :
         /\ probes[i].kind = "window"
         /\ \A s \in skipped : s < probes[i].scale

FrameCalls(s) == {i \in 1..Len(probes) : probes[i] = FrameProbe(s)}

\* C19: with a positive scaleStep, at every scale whose frame was resampled
\* the whole-frame decode call is made exactly once and before any window of
\* that scale; when it gives a payload the scan has returned true with no
\* window probed and no rectangle drawn for that scale.
C19_FrameBeforeWindows ==
    scannerSettings.scaleStep > 0 =>
        /\ \A i \in 1..Len(probes) : Cardinality(FrameCalls(probes[i].scale)) <= 1
        /\ \A j \in 1..Len(probes) :
              probes[j].kind = "window" =>
                  \E i \in 1..(j - 1) : probes[i] = FrameProbe(probes[j].scale)
        /\ pc \in {"sizeLoop", "yLoop", "xLoop", "probe"} =>
              Cardinality(FrameCalls(scale)) = 1
        /\ (probes # <<>> /\ LastProbe.kind = "frame" /\ code \in Payloads) =>
              /\ Returned /\ result = "true" /\ onDecodeCalls = <<code>>
              /\ \A i \in 1..Len(probes) :
                    probes[i].kind = "window" => probes[i].scale # LastProbe.scale
              /\ \A i \in 1..Len(canvasWrites) :
                    canvasWrites[i].op \in {"probe", "found"} =>
                        canvasWrites[i].scale # LastProbe.scale

C19_Witness ==
    /\ scannerSettings.scaleStep > 0
    /\ debugContext
    /\ result = "true"
    /\ LastProbe.kind = "frame"
    /\ ProbeRects # <<>>
    /\ scannerSettings.windowSizes # <<>>

ZeroDim(s) == ScaledDim(width, s) <= 0 \/ ScaledDim(height, s) <= 0

\* C20: a scale whose floored width or height is not positive gets no canvas
\* and no decode call, whole frame or window, and the step that meets it
\* goes back to the loop test with scale + scaleStep and touches nothing else.
C20_EmptyDimensionsSkipScale ==
    /\ []( /\ \A i \in 1..Len(probes) :
                 probes[i].kind # "native" => ~ZeroDim(probes[i].scale)
            /\ \A s \in skipped : ~ZeroDim(s)
            /\ pc \in {"resample", "frame", "sizeLoop", "yLoop", "xLoop", "probe"} =>
                 ~ZeroDim(scale) )
    /\ [][(pc = "scaleLoop" /\ scale <= scannerSettings.maxScale /\ ZeroDim(scale)) =>
             /\ pc' = "scaleLoop"
             /\ scale' = scale + scannerSettings.scaleStep
             /\ UNCHANGED <<probes, skipped, canvasWrites, onDecodeCalls,
                            onDebugImageCalls, result>>]_vars

C20_Witness ==
    /\ scannerSettings.scaleStep > 0
    /\ ZeroDim(scannerSettings.minScale)
    /\ scale > scannerSettings.minScale
    /\ LastProbe.kind = "window"
    /\ Returned

\* the literal a setting was written as, in hundredths
Written(f) == CHOOSE n \in MinScaleLiterals \cup MaxScaleLiterals \cup ScaleStepLiterals :
                  NumberLiteral(n) = f

\* C18: when the scan runs out of scales on a frame large enough for every
\* scale, the loop body has run once for each minScale + i*scaleStep up to
\* maxScale, and when maxScale - minScale is a multiple of scaleStep exactly
\* one of the scales it ran at is maxScale.
C18_ScaleSequence ==
    (pc = "done" /\ result = "false" /\ width = 1000) =>
        LET lo   == Written(scannerSettings.minScale)
            hi   == Written(scannerSettings.maxScale)
            step == Written(scannerSettings.scaleStep)
        IN  /\ Len(probes) = (hi - lo) \div step + 1
            /\ (hi - lo) % step = 0 =>
                 Cardinality({i \in 1..Len(probes) :
                                 probes[i].scale = scannerSettings.maxScale}) = 1

\* C21: onDebugImage is called at most once in a scan, and by the step that
\* returns: the found rectangle of a successful window is on the canvas by
\* then, and no probe, canvas write or callback follows the call.
C21_HandOffAtTheEnd ==
    /\ [](Len(onDebugImageCalls) <= 1 /\ (onDebugImageCalls # <<>> => Returned))
    /\ [][/\ onDebugImageCalls' # onDebugImageCalls =>
               /\ pc' = "done"
               /\ result' # "none"
               /\ result' = "true" =>
                    canvasWrites'[Len(canvasWrites')] =
                        Rect("found", scale, windowSize, x, y)
          /\ onDebugImageCalls # <<>> => FALSE]_vars

C21_Witness ==
    /\ result = "true"
    /\ onDebugImageCalls # <<>>
    /\ Len(ProbeRects) >= 2
    /\ FoundRects # <<>>

\* C22: every window given to the decode call lies inside the resampled
\* frame of its scale: 0 <= x, 0 <= y, x + size <= scaled width and
\* y + size <= scaled height, the size being the configured window size.
C22_WindowInsideFrame ==
    /\ \A i \in 1..Len(probes) :
          probes[i].kind = "window" =>
              /\ probes[i].x >= 0
              /\ probes[i].y >= 0
              /\ probes[i].size = scannerSettings.windowSizes[probes[i].wi]
              /\ probes[i].x + probes[i].size <= ScaledDim(width, probes[i].scale)
              /\ probes[i].y + probes[i].size <= ScaledDim(height, probes[i].scale)
    /\ pc = "probe" =>
          /\ x >= 0 /\ x + windowSize <= scaledWidth
          /\ y >= 0 /\ y + windowSize <= scaledHeight

C22_Witness ==
    /\ Returned
    /\ \E i \in 1..Len(probes) :
          /\ probes[i].kind = "window"
          /\ probes[i].x > 0
          /\ probes[i].x + probes[i].size = ScaledDim(width, probes[i].scale)
    /\ \E i \in 1..Len(probes) :
          /\ probes[i].kind = "window"
          /\ probes[i].y > 0
          /\ probes[i].y + probes[i].size = ScaledDim(height, probes[i].scale)

\* C23: whatever is done in the options panel, the settings keep
\* minScale <= maxScale, scaleStep > 0 and a step of at least one pixel for
\* every window size.
C23_PanelSettingsValid ==
    /\ scannerSettings.minScale <= scannerSettings.maxScale
    /\ scannerSettings.scaleStep > 0
    /\ \A i \in 1..Len(scannerSettings.windowSizes) :
          (scannerSettings.windowSizes[i] * (100 - scannerSettings.windowOverlap)) \div 100 >= 1

C23_Witness ==
    /\ scannerSettings.minScale = 100
    /\ scannerSettings.maxScale = 100
    /\ scannerSettings.debugMode
    /\ ~scannerSettings.useAdvancedScanning

\* C24: the pages of a PDF are taken in ascending order, one at a time; once
\* a page has given a code the PDF does nothing more (no later page is
\* rendered or scanned), so onDecode is called at most once for a PDF; and a
\* PDF sets 'No QR code found in the PDF.' only if none of its pages gave a
\* code.
C24_PagesInOrderUntilFound ==
    /\ [](\A j \in 1..Len(jobs) :
            /\ jobs[j].decodes <= 1
            /\ jobs[j].page <= jobs[j].numPages
            /\ jobs[j].kind = "pdf" => (jobs[j].qrFound <=> jobs[j].decodes = 1)
            /\ jobs[j].qrFound => jobs[j].at = "done")
    /\ [][\A j \in 1..Len(jobs) :
            /\ jobs'[j].page \in {jobs[j].page, jobs[j].page + 1}
            /\ jobs[j].qrFound => jobs'[j] = jobs[j]
            /\ jobs[j].at = "render" /\ jobs'[j].at = "getPage" =>
                  jobs'[j].page = jobs[j].page + 1
            /\ (/\ jobs[j].kind = "pdf"
                /\ jobs[j].at # "done" /\ jobs'[j].at = "done"
                /\ error' = "No QR code found in the PDF."
                /\ error # error') => jobs'[j].decodes = 0]_vars

C24_Witness ==
    /\ \E j \in 1..Len(jobs) :
          /\ jobs[j].kind = "pdf" /\ jobs[j].at = "done"
          /\ jobs[j].numPages = 2 /\ jobs[j].page = 1
          /\ jobs[j].qrFound /\ jobs[j].decodes = 1
    /\ \E j \in 1..Len(jobs) :
          /\ jobs[j].kind = "pdf" /\ jobs[j].at = "done"
          /\ jobs[j].numPages = 2 /\ jobs[j].page = 2
          /\ jobs[j].qrFound

\* the job has called setIsLoading(true): processPdf does at its start,
\* processImageFile when the FileReader has given the image
HasSetLoading(j) == jobs[j].kind = "pdf" \/ jobs[j].at = "image"

\* C25: a job that has set isLoading to true sets it to false in the step
\* that ends it, whichever way it ends, and a PDF sets processing to false
\* in that step as well; so once every started job has ended, isLoading and
\* processing are both false.
C25_LoadingReleased ==
    /\ [](InFlight = {} => ~isLoading /\ ~pdfProcessingState.processing)
    /\ [][\A j \in 1..Len(jobs) :
            (HasSetLoading(j) /\ jobs[j].at # "done" /\ jobs'[j].at = "done") =>
                /\ isLoading' = FALSE
                /\ jobs[j].kind = "pdf" => pdfProcessingState'.processing = FALSE]_vars

C25_Witness ==
    /\ InFlight = {}
    /\ ~isLoading
    /\ \E j \in 1..Len(jobs) : jobs[j].kind = "pdf" /\ jobs[j].page = 2 /\ ~jobs[j].qrFound
    /\ \E j \in 1..Len(jobs) : jobs[j].kind # "pdf" /\ lastScan = Some(<<j, 0>>)

\* C26: when no job is in flight, decodedData and error are not both set;
\* stated here for the runs with the PDF library loaded and a single job, so
\* that neither the failed import nor a second job is what sets the error.
C26_ResultXorError ==
    (InFlight = {} /\ pdfjs = "loaded" /\ Len(jobs) <= 1) =>
        ~(decodedData # None /\ error # Null)

\* C27: at most one job is in flight: from the upload or paste that starts a
\* job until its last callback has run, no upload or paste starts another.
C27_OneJobInFlight == Cardinality(InFlight) <= 1

\* C28: after a scan has returned or raised, a debug image that is shown was
\* handed off by that scan, the latest one; no scan leaves the image of an
\* earlier scan in place.
C28_DebugImageOfLatestScan ==
    (lastScan # None /\ debugImage # None) => debugImage = lastScan

\* C29: when a PDF stops because the canvas of a page cannot be prepared,
\* the error left when that PDF has finished is 'Could not prepare canvas.'.
C29_CanvasErrorKept ==
    [][\A j \in Waiting("getPage") :
          CanvasNotPrepared(j) => error' = "Could not prepare canvas."]_vars

\* C30: the type given to a decoded string is "json" if it parses as JSON,
\* else "wifi" if it starts with WIFI:, else "url" if it starts with http://
\* or https://, else "text"; the data is kept as it came, and credentials
\* are given only for a JSON object with ssid and password or a WIFI string
\* with an S: and a P: field.
C30_ClassificationPrioritised ==
    decodedData # None =>
        LET data == decodedData[1]
            r    == DecodeResult(data)
        IN  /\ r.decodedData = data
            /\ dataType = r.dataType
            /\ r.dataType =
                 IF JSONparse(data).kind # Throw THEN "json"
                 ELSE IF startsWith(data, "WIFI:") THEN "wifi"
                 ELSE IF startsWith(data, "http://") \/ startsWith(data, "https://")
                   THEN "url"
                 ELSE "text"
            /\ r.wifiCredentials # None =>
                 \/ /\ JSONparse(data).kind = "object"
                    /\ {"ssid", "password"} \subseteq JSONparse(data).keys
                 \/ /\ r.dataType = "wifi"
                    /\ match(data, "S:s;") /\ match(data, "P:p;")
            /\ wifiCredentials = r.wifiCredentials
====
